---------------------------- MODULE Spec2Model ----------------------------
(***************************************************************************)
(* A model of the SPK container decoder (src/src/chunks.rs, src/src/spk.rs) *)
(* SPKFile::parse reads a byte stream chunk by chunk; SPKFile::read fetches *)
(* one file's bytes under the reader mutex.                                 *)
(*                                                                          *)
(* Numbers.  A u32 is the sequence of its 4 little-endian bytes and a u64   *)
(* the sequence of its 8 little-endian bytes, so that every value of the    *)
(* program's width is representable; arithmetic is done on the bytes        *)
(* (AddU64) and a value is turned into an integer (ToInt) only where it is  *)
(* known to be a position inside the stream.                                *)
(***************************************************************************)
EXTENDS Integers, Sequences, FiniteSets, TLC

VARIABLES
    inp,        \* the layout the stream was built from (ground truth, never read by the decoder)
    bytes,      \* the byte source
    src,        \* kind of byte source: "cursor" (io::Cursor) or "file" (fs::File)
    pos,        \* the byte source's cursor, a u64
    pc,         \* position of parse: which chunk is read next
    count,      \* spks.chunk_count, a u32
    iter,       \* number of completed iterations of the package loop
    spk0,       \* PosValue<SPK0> of the current package
    sidx,       \* SIDX of the current package
    strs,       \* PosValue<STRS> of the current package (its pos)
    files,      \* files of the current package
    packages,   \* packages decoded so far
    err,        \* the failure parse returned, "" while none
    hist,       \* per package: where the decoder found each chunk (history)
    lock,       \* holder of the reader mutex, 0 when free
    calls       \* per thread: the SPKFile::read call in progress

vars == <<inp, bytes, src, pos, pc, count, iter, spk0, sidx, strs, files,
          packages, err, hist, lock, calls>>

parseVars == <<pc, count, iter, spk0, sidx, strs, files, packages, err, hist>>

(***************************************************************************)
(* Bounds of the model.                                                     *)
(***************************************************************************)
MaxEntries == 2
MaxPkgs == 2
NThreads == 2

(***************************************************************************)
(* u32 / u64 values as little-endian byte sequences.                        *)
(***************************************************************************)
Zeros(n) == [i \in 1..n |-> 0]

Fill(n, b) == [i \in 1..n |-> b]

\* little-endian encoding of a small integer (n < 2^31)
LE16(n) == <<n % 256, (n \div 256) % 256>>

LE32(n) == <<n % 256, (n \div 256) % 256, (n \div 65536) % 256, (n \div 16777216) % 256>>

LE64(n) == LE32(n) \o Zeros(4)

\* u64::from(u32)
Widen(w) == w \o Zeros(4)

\* a u64 below 2^30: every position inside a stream of the model is one
Addressable(v) == v[4] < 64 /\ \A i \in 5..8 : v[i] = 0

ToInt(v) == v[1] + 256 * v[2] + 65536 * v[3] + 16777216 * v[4]

\* carry into byte i of a + b
RECURSIVE Carry(_, _, _)
Carry(a, b, i) ==
    IF i = 1 THEN 0 ELSE (a[i-1] + b[i-1] + Carry(a, b, i-1)) \div 256

\* a + b modulo 2^64 (what a build without overflow checks computes)
AddU64(a, b) == [i \in 1..8 |-> (a[i] + b[i] + Carry(a, b, i)) % 256]

\* a + b exceeds 2^64 - 1
Overflows(a, b) == Carry(a, b, 9) = 1

\* a < b on u64
RECURSIVE LtFrom(_, _, _)
LtFrom(a, b, i) ==
    IF i = 0 THEN FALSE
    ELSE IF a[i] # b[i] THEN a[i] < b[i]
    ELSE LtFrom(a, b, i-1)

LtU64(a, b) == LtFrom(a, b, 8)

LeU64(a, b) == ~LtU64(b, a)

(***************************************************************************)
(* The chunk tags (the magic of each record of chunks.rs).                  *)
(***************************************************************************)
TagSPKS == <<83, 80, 75, 83>>
TagSPK0 == <<83, 80, 75, 48>>
TagSIDX == <<83, 73, 68, 88>>
TagSTRS == <<83, 84, 82, 83>>
TagFINF == <<70, 73, 78, 70>>
TagFI64 == <<70, 73, 54, 52>>
TagFEND == <<70, 69, 78, 68>>
TagSDAT == <<83, 68, 65, 84>>
TagSZ64 == <<83, 90, 54, 52>>
Sentinel == <<255, 255, 255, 255>>

(***************************************************************************)
(* Reading the byte source.  p is a 0-based position.                       *)
(***************************************************************************)
Avail(s, p, n) == p + n <= Len(s)

Take(s, p, n) == SubSeq(s, p + 1, p + n)

HasTag(s, p, tag) == Avail(s, p, 4) /\ Take(s, p, 4) = tag

Failed == [ok |-> FALSE]

(***************************************************************************)
(* Length codec: ByteLen (chunks.rs 22-44).  binrw tries the variants in    *)
(* order, rewinding after a failed one: New needs the sentinel and 8 more   *)
(* bytes, and when New fails for any reason Old reads the 4 bytes as a u32. *)
(***************************************************************************)
ByteLenRead(s, p) ==
    IF Avail(s, p, 12) /\ Take(s, p, 4) = Sentinel
    THEN [ok |-> TRUE, form |-> "New", len |-> Take(s, p + 4, 8), end |-> p + 12]
    ELSE IF Avail(s, p, 4)
    THEN [ok |-> TRUE, form |-> "Old", len |-> Take(s, p, 4), end |-> p + 4]
    ELSE Failed

byte_len(bl) == IF bl.form = "New" THEN bl.len ELSE Widen(bl.len)

header_size(bl) == IF bl.form = "New" THEN LE64(16) ELSE LE64(8)

(***************************************************************************)
(* Chunk grammar: one reader per record of chunks.rs.  Each returns         *)
(* [ok |-> FALSE] or the decoded fields and `end`, the position after the   *)
(* record.  A failed read leaves the cursor at the record's start (binrw    *)
(* rewinds on error).                                                       *)
(***************************************************************************)
SPKSRead(s, p) ==
    IF ~HasTag(s, p, TagSPKS) THEN Failed
    ELSE LET bl == ByteLenRead(s, p + 4) IN
         IF ~bl.ok \/ ~Avail(s, bl.end, 4) THEN Failed
         ELSE [ok |-> TRUE, byte_length |-> bl,
               chunk_count |-> Take(s, bl.end, 4), end |-> bl.end + 4]

SPK0Read(s, p) ==
    IF ~HasTag(s, p, TagSPK0) THEN Failed
    ELSE LET bl == ByteLenRead(s, p + 4) IN
         IF ~bl.ok THEN Failed
         ELSE [ok |-> TRUE, byte_len |-> bl, end |-> bl.end]

\* SPK0::offset_to_next: header_size + byte_len, modulo 2^64
offset_to_next(env) == AddU64(header_size(env.byte_len), byte_len(env.byte_len))

PackageTypes == {1, 2, 3}

SIDXRead(s, p) ==
    IF ~HasTag(s, p, TagSIDX) THEN Failed
    ELSE LET bl == ByteLenRead(s, p + 4) IN
         IF ~bl.ok \/ ~Avail(s, bl.end, 48) THEN Failed
         ELSE IF s[bl.end + 36] \notin PackageTypes THEN Failed
         ELSE [ok |-> TRUE, byte_len |-> bl,
               package_name |-> Take(s, bl.end, 29),
               package_id |-> Take(s, bl.end + 29, 3),
               major_version |-> s[bl.end + 33],
               minor_version |-> s[bl.end + 34],
               patch_version |-> s[bl.end + 35],
               package_type |-> s[bl.end + 36],
               end |-> bl.end + 48]

\* mutant: a failed read leaves the cursor after the 4 bytes it compared
SZ64ReadNoRewind(s, p) ==
    IF HasTag(s, p, TagSZ64) /\ Avail(s, p, 16)
    THEN [ok |-> TRUE, end |-> p + 16]
    ELSE [ok |-> FALSE, end |-> IF Avail(s, p, 4) THEN p + 4 ELSE p]

\* a failed read rewinds: the cursor ends where the record started
SZ64Read(s, p) ==
    IF HasTag(s, p, TagSZ64) /\ Avail(s, p, 16)
    THEN [ok |-> TRUE, end |-> p + 16]
    ELSE [ok |-> FALSE, end |-> p]

STRSRead(s, p) ==
    IF ~(HasTag(s, p, TagSTRS) /\ Avail(s, p, 8)) THEN Failed
    ELSE LET n == Widen(Take(s, p + 4, 4)) IN
         IF Addressable(n) /\ Avail(s, p + 8, ToInt(n))
         THEN [ok |-> TRUE, byte_len |-> Take(s, p + 4, 4), end |-> p + 8 + ToInt(n)]
         ELSE Failed

\* mutant: the Terminator's length is not asserted to be zero
FENDReadAnyLength(s, p) ==
    IF HasTag(s, p, TagFEND) /\ Avail(s, p, 8)
    THEN [ok |-> TRUE, kind |-> "FEND", end |-> p + 8]
    ELSE Failed

FENDRead(s, p) ==
    IF HasTag(s, p, TagFEND) /\ Avail(s, p, 8) /\ Take(s, p + 4, 4) = Zeros(4)
    THEN [ok |-> TRUE, kind |-> "FEND", end |-> p + 8]
    ELSE Failed

SDATRead(s, p) ==
    IF ~HasTag(s, p, TagSDAT) THEN Failed
    ELSE LET bl == ByteLenRead(s, p + 4) IN
         IF ~bl.ok THEN Failed
         ELSE [ok |-> TRUE, byte_len |-> bl, end |-> bl.end]

(***************************************************************************)
(* Pointer resolver: FilePtr32 / FilePtr64 with offset(strs_offset) and     *)
(* restore_position (chunks.rs 103, 150).  The name is the bytes from       *)
(* strs_offset + pointer up to the first NUL; the cursor goes back to the   *)
(* pointer field, which the temp field then reads again.                    *)
(***************************************************************************)
RECURSIVE NulAt(_, _)
NulAt(s, q) ==
    IF q >= Len(s) THEN -1
    ELSE IF s[q + 1] = 0 THEN q
    ELSE NulAt(s, q + 1)

\* a seek of the byte source to `target` succeeds (a File refuses a
\* target above i64::MAX, a Cursor takes any)
SeekOk(kind, target) == kind = "cursor" \/ target[8] < 128

NullStringRead(s, kind, a) ==
    IF ~SeekOk(kind, a) \/ ~Addressable(a) THEN Failed
    ELSE LET z == NulAt(s, ToInt(a)) IN
         IF z < 0 THEN Failed
         ELSE [ok |-> TRUE, val |-> Take(s, ToInt(a), z - ToInt(a)), end |-> z + 1]

\* mutant: the cursor stays where the read of the name ended
StayAfterName(saved, after) == after

\* #[br(restore_position)]: the cursor after the field is the one saved
\* before it, wherever the read of the name ended
RestorePosition(saved, after) == saved

\* strs_offset + pointer exceeds 2^64 - 1
PtrOverflows(s, p, base) ==
    \/ HasTag(s, p, TagFI64) /\ Avail(s, p, 16) /\ Overflows(base, Take(s, p + 8, 8))
    \/ HasTag(s, p, TagFINF) /\ Avail(s, p, 12) /\ Overflows(base, Widen(Take(s, p + 8, 4)))

FINFRead(s, kind, p, strs_offset) ==
    IF ~(HasTag(s, p, TagFINF) /\ Avail(s, p, 65)) THEN Failed
    ELSE LET name == NullStringRead(s, kind, AddU64(strs_offset, Widen(Take(s, p + 8, 4)))) IN
         IF ~name.ok THEN Failed
         ELSE [ok |-> TRUE, kind |-> "FINF",
               byte_len |-> Take(s, p + 4, 4),
               filename |-> name.val,
               file_size |-> Take(s, p + 12, 4),
               data_offset |-> Take(s, p + 16, 4),
               data_size |-> Take(s, p + 20, 4),
               mode |-> Take(s, p + 24, 2),
               data_hmac |-> Take(s, p + 29, 20),
               data_md5 |-> Take(s, p + 49, 16),
               \* the pointer (temp field), 3 u32, mode, pad 3, hmac, md5, pad 3
               end |-> RestorePosition(p + 8, name.end) + 4 + 12 + 2 + 3 + 20 + 16 + 3]

FI64Read(s, kind, p, strs_offset) ==
    IF ~(HasTag(s, p, TagFI64) /\ Avail(s, p, 81)) THEN Failed
    ELSE LET name == NullStringRead(s, kind, AddU64(strs_offset, Take(s, p + 8, 8))) IN
         IF ~name.ok THEN Failed
         ELSE [ok |-> TRUE, kind |-> "FI64",
               byte_len |-> Take(s, p + 4, 4),
               filename |-> name.val,
               file_size |-> Take(s, p + 16, 8),
               data_offset |-> Take(s, p + 24, 8),
               data_size |-> Take(s, p + 32, 8),
               mode |-> Take(s, p + 40, 2),
               data_hmac |-> Take(s, p + 45, 20),
               data_md5 |-> Take(s, p + 65, 16),
               \* the pointer (temp field), 3 u64, mode, pad 3, hmac, md5, pad 7
               end |-> RestorePosition(p + 8, name.end) + 8 + 24 + 2 + 3 + 20 + 16 + 7]

\* enum FileInfo: FINF, then FI64, then FEND, the first that decodes
FileInfoRead(s, kind, p, strs_offset) ==
    LET a == FINFRead(s, kind, p, strs_offset)
        b == FI64Read(s, kind, p, strs_offset)
    IN  IF a.ok THEN a ELSE IF b.ok THEN b ELSE FENDRead(s, p)

(***************************************************************************)
(* Record normalizer: TryFrom<FileInfo> for FI64 (chunks.rs 230-249).       *)
(***************************************************************************)
\* mutant: the narrow values are widened as signed numbers
TryFromSignExtending(fi) ==
    LET SignExtend(w) == w \o Fill(4, IF w[4] >= 128 THEN 255 ELSE 0) IN
    IF fi.kind = "FEND" THEN [ok |-> FALSE, val |-> "FEND"]
    ELSE [ok |-> TRUE,
          val |-> [byte_len |-> fi.byte_len,
                   filename |-> fi.filename,
                   file_size |-> IF fi.kind = "FINF" THEN SignExtend(fi.file_size)
                                 ELSE fi.file_size,
                   data_offset |-> IF fi.kind = "FINF" THEN SignExtend(fi.data_offset)
                                   ELSE fi.data_offset,
                   data_size |-> IF fi.kind = "FINF" THEN SignExtend(fi.data_size)
                                 ELSE fi.data_size,
                   mode |-> fi.mode,
                   data_hmac |-> fi.data_hmac,
                   data_md5 |-> fi.data_md5]]

TryFromFileInfo(fi) ==
    IF fi.kind = "FINF"
    THEN [ok |-> TRUE,
          val |-> [byte_len |-> fi.byte_len,
                   filename |-> fi.filename,
                   file_size |-> Widen(fi.file_size),
                   data_offset |-> Widen(fi.data_offset),
                   data_size |-> Widen(fi.data_size),
                   mode |-> fi.mode,
                   data_hmac |-> fi.data_hmac,
                   data_md5 |-> fi.data_md5]]
    ELSE IF fi.kind = "FI64"
    THEN [ok |-> TRUE,
          val |-> [byte_len |-> fi.byte_len,
                   filename |-> fi.filename,
                   file_size |-> fi.file_size,
                   data_offset |-> fi.data_offset,
                   data_size |-> fi.data_size,
                   mode |-> fi.mode,
                   data_hmac |-> fi.data_hmac,
                   data_md5 |-> fi.data_md5]]
    ELSE [ok |-> FALSE, val |-> "FEND"]

(***************************************************************************)
(* Names.  A String is the sequence of its UTF-8 bytes.  CStr::to_str       *)
(* (spk.rs 123-125) validates; NullString::to_string (spk.rs 107) is the    *)
(* lossy Display of binrw: every invalid sequence becomes U+FFFD.           *)
(***************************************************************************)
Cont(bs, i) == i <= Len(bs) /\ bs[i] \in 128..191

SecondOk(bs, i) ==
    /\ i + 1 <= Len(bs)
    /\ bs[i + 1] \in (CASE bs[i] = 224 -> 160..191
                        [] bs[i] = 237 -> 128..159
                        [] bs[i] = 240 -> 144..191
                        [] bs[i] = 244 -> 128..143
                        [] OTHER -> 128..191)

\* the UTF-8 sequence starting at byte i: whether it is valid, and its
\* length (for an invalid one, the length of the part that is replaced)
Utf8Seq(bs, i) ==
    LET b == bs[i] IN
    IF b < 128 THEN [valid |-> TRUE, len |-> 1]
    ELSE IF b \in 194..223
    THEN IF Cont(bs, i + 1) THEN [valid |-> TRUE, len |-> 2]
         ELSE [valid |-> FALSE, len |-> 1]
    ELSE IF b \in 224..239
    THEN IF ~SecondOk(bs, i) THEN [valid |-> FALSE, len |-> 1]
         ELSE IF ~Cont(bs, i + 2) THEN [valid |-> FALSE, len |-> 2]
         ELSE [valid |-> TRUE, len |-> 3]
    ELSE IF b \in 240..244
    THEN IF ~SecondOk(bs, i) THEN [valid |-> FALSE, len |-> 1]
         ELSE IF ~Cont(bs, i + 2) THEN [valid |-> FALSE, len |-> 2]
         ELSE IF ~Cont(bs, i + 3) THEN [valid |-> FALSE, len |-> 3]
         ELSE [valid |-> TRUE, len |-> 4]
    ELSE [valid |-> FALSE, len |-> 1]

RECURSIVE Utf8ValidFrom(_, _)
Utf8ValidFrom(bs, i) ==
    IF i > Len(bs) THEN TRUE
    ELSE LET q == Utf8Seq(bs, i) IN q.valid /\ Utf8ValidFrom(bs, i + q.len)

Utf8Valid(bs) == Utf8ValidFrom(bs, 1)

ReplacementChar == <<239, 191, 189>>

RECURSIVE LossyFrom(_, _)
LossyFrom(bs, i) ==
    IF i > Len(bs) THEN <<>>
    ELSE LET q == Utf8Seq(bs, i) IN
         (IF q.valid THEN SubSeq(bs, i, i + q.len - 1) ELSE ReplacementChar)
             \o LossyFrom(bs, i + q.len)

\* NullString::to_string
NullStringToString(bs) == LossyFrom(bs, 1)

\* CStr::from_bytes_until_nul(&field)?.to_str()?.to_string()
PackageName(field) ==
    LET z == NulAt(field, 0) IN
    IF z < 0 THEN [ok |-> FALSE, err |-> "From"]
    ELSE IF ~Utf8Valid(Take(field, 0, z)) THEN [ok |-> FALSE, err |-> "Utf8"]
    ELSE [ok |-> TRUE, val |-> Take(field, 0, z)]

(***************************************************************************)
(* Building a byte source from a layout: the wire form of each record of    *)
(* chunks.rs.  The decoder never sees the layout, only the bytes.           *)
(***************************************************************************)
EncByteLen(form, n) == IF form = "New" THEN Sentinel \o LE64(n) ELSE LE32(n)

EncSPKS(n, cnt) == TagSPKS \o LE32(n) \o LE32(cnt)

EncSPK0(form, n) == TagSPK0 \o EncByteLen(form, n)

\* the 29-byte name field, the 3-byte id field, version, type, 12 reserved bytes
NameField(k) == <<80, 107, 103, 48 + k>> \o Zeros(25)

TypeOf(k) == ((k - 1) % 3) + 1

EncSIDX(form, k) ==
    TagSIDX \o EncByteLen(form, 48) \o NameField(k) \o Zeros(3)
        \o <<k, 2, 3, TypeOf(k)>> \o Zeros(12)

EncSZ64 == TagSZ64 \o LE32(8) \o Fill(8, 7)

EncSTRS(data) == TagSTRS \o LE32(Len(data)) \o data

EncFEND(n) == TagFEND \o LE32(n)

EncSDAT(form, n) == TagSDAT \o EncByteLen(form, n)

Mode == LE16(33188)

Hmac(e) == Fill(20, 100 + e.ptr)

Md5(e) == Fill(16, 200 + e.doff)

EncFINF(e) ==
    TagFINF \o LE32(60) \o LE32(e.ptr) \o LE32(e.dsize) \o LE32(e.doff) \o LE32(e.dsize)
        \o Mode \o Zeros(3) \o Hmac(e) \o Md5(e) \o Zeros(3)

\* a wide entry's data offset: e.doff + e.hi * 2^56
DataOffset(e) == LE32(e.doff) \o <<0, 0, 0, e.hi>>

EncFI64(e) ==
    TagFI64 \o LE32(80) \o LE64(e.ptr) \o LE64(e.dsize) \o DataOffset(e) \o LE64(e.dsize)
        \o Mode \o Zeros(3) \o Hmac(e) \o Md5(e) \o Zeros(7)

EncEntry(e) == IF e.wide THEN EncFI64(e) ELSE EncFINF(e)

\* string storage and file data of package k
StrsData(k) == <<95 + 2 * k, 0, 96 + 2 * k, 0>>

DataBytes(k) == [i \in 1..5 |-> 10 * k + i]

RECURSIVE Flatten(_)
Flatten(ss) == IF ss = <<>> THEN <<>> ELSE Head(ss) \o Flatten(Tail(ss))

\* the chunks of package k after its envelope, in stream order
BodyChunks(p, k) ==
    <<EncSIDX(p.env, k)>>
        \o (IF p.aux THEN <<EncSZ64>> ELSE <<>>)
        \o <<EncSTRS(StrsData(k))>>
        \o [i \in 1..Len(p.ents) |-> EncEntry(p.ents[i])]
        \o <<EncFEND(p.fend), EncSDAT(p.sdat, 5), DataBytes(k) \o Fill(p.pad, 170)>>

\* the byte length the envelope declares: the size of the package's region
\* after the envelope header, or less for a malformed envelope
Declared(p, k) ==
    LET region == Len(Flatten(BodyChunks(p, k))) IN
    IF p.span = "exact" THEN region
    ELSE IF p.span = "zero" THEN 0
    ELSE region - 8

PkgChunks(p, k) == <<EncSPK0(p.env, Declared(p, k))>> \o BodyChunks(p, k)

RECURSIVE AllPkgChunks(_, _)
AllPkgChunks(ps, k) ==
    IF k > Len(ps) THEN <<>> ELSE PkgChunks(ps[k], k) \o AllPkgChunks(ps, k + 1)

Chunks(c) ==
    LET rest == AllPkgChunks(c.pkgs, 1) IN
    <<EncSPKS(Len(Flatten(rest)) + 4, c.count)>> \o rest

\* chunk c with the d.len bytes after its first d.keep bytes set to d.val
Poked(c, d) ==
    [i \in 1..Len(c) |-> IF i > d.keep /\ i <= d.keep + d.len THEN d.val ELSE c[i]]

\* the damage done to the stream: a chunk's tag overwritten, the stream
\* cut `keep` bytes into a chunk, or a field of a chunk overwritten
Damaged(cs, d) ==
    IF d.how = "tag"
    THEN Flatten([cs EXCEPT ![d.at] = <<88>> \o Tail(cs[d.at])])
    ELSE IF d.how = "cut"
    THEN Flatten(SubSeq(cs, 1, d.at - 1)) \o SubSeq(cs[d.at], 1, d.keep)
    ELSE IF d.how = "poke"
    THEN Flatten([cs EXCEPT ![d.at] = Poked(@, d)])
    ELSE Flatten(cs)

Stream(c) == Damaged(Chunks(c), c.dmg)

(***************************************************************************)
(* SPKFile::parse (spk.rs 82-141), one action per chunk read.               *)
(***************************************************************************)
\* where the next record is read: a cursor beyond every stream reads like
\* one at the end of the stream
Cur == IF Addressable(pos) THEN ToInt(pos) ELSE Len(bytes)

NoPos == [pos |-> Zeros(8), val |-> Failed]

NewHist(at) ==
    [spk0At |-> at, env |-> Failed, sidxAt |-> -1, probeAt |-> -1, aux |-> FALSE,
     strsAt |-> -1, recs |-> <<>>, sdatAt |-> -1, sdat |-> Failed, sdatEnd |-> -1,
     target |-> <<>>]

\* what an addition that overflows may do: abort the program (a build with
\* overflow checks) or wrap around (a build without)
Outcomes(overflow) == IF overflow THEN {"panic", "wrap"} ELSE {"wrap"}

\* mutant: the loop ends after the first package
LoopTopOnce(n, cnt) == IF n = 0 /\ cnt # Zeros(4) THEN "spk0" ELSE "done"

\* the package loop `for _ in 0..spks.chunk_count` after n iterations
LoopTop(n, cnt) == IF LtU64(LE64(n), Widen(cnt)) THEN "spk0" ELSE "done"

\* mutant: a read that failed is tried again at the same position
Retry(e) ==
    UNCHANGED <<pc, err, pos, count, iter, spk0, sidx, strs, files, packages, hist>>

Fail(e) ==
    /\ pc' = "failed"
    /\ err' = e
    /\ UNCHANGED <<pos, count, iter, spk0, sidx, strs, files, packages, hist>>

\* the program aborts: an addition overflowed ("overflow") or the unwrap of
\* spk.rs 105 met an Err ("unwrap")
Panic(why) ==
    /\ pc' = "panicked"
    /\ err' = why
    /\ UNCHANGED <<pos, count, iter, spk0, sidx, strs, files, packages, hist>>

\* spk.rs 86
ReadSPKS ==
    /\ pc = "spks"
    /\ \E r \in {SPKSRead(bytes, Cur)} :
       IF ~r.ok THEN Fail("Parse")
       ELSE /\ count' = r.chunk_count
            /\ pos' = LE64(r.end)
            /\ pc' = LoopTop(0, r.chunk_count)
            /\ UNCHANGED <<iter, spk0, sidx, strs, files, packages, hist, err>>
    /\ UNCHANGED <<inp, bytes, src, lock, calls>>

\* spk.rs 90
ReadSPK0 ==
    /\ pc = "spk0"
    /\ \E r \in {SPK0Read(bytes, Cur)} :
       IF ~r.ok THEN Fail("Parse")
       ELSE /\ spk0' = [pos |-> pos, val |-> r]
            /\ pos' = LE64(r.end)
            /\ pc' = "sidx"
            /\ hist' = Append(hist, [NewHist(Cur) EXCEPT !.env = r.byte_len])
            /\ UNCHANGED <<count, iter, sidx, strs, files, packages, err>>
    /\ UNCHANGED <<inp, bytes, src, lock, calls>>

\* spk.rs 91
ReadSIDX ==
    /\ pc = "sidx"
    /\ \E r \in {SIDXRead(bytes, Cur)} :
       IF ~r.ok THEN Fail("Parse")
       ELSE /\ sidx' = r
            /\ pos' = LE64(r.end)
            /\ pc' = "sz64"
            /\ hist' = [hist EXCEPT ![Len(hist)].sidxAt = Cur]
            /\ UNCHANGED <<count, iter, spk0, strs, files, packages, err>>
    /\ UNCHANGED <<inp, bytes, src, lock, calls>>

\* spk.rs 94: `let _ = SZ64::read_le(..)`, the result is dropped
ProbeSZ64 ==
    /\ pc = "sz64"
    /\ \E r \in {SZ64Read(bytes, Cur)} :
       /\ pos' = LE64(r.end)
       /\ hist' = [hist EXCEPT ![Len(hist)].probeAt = Cur, ![Len(hist)].aux = r.ok]
    /\ pc' = "strs"
    /\ UNCHANGED <<count, iter, spk0, sidx, strs, files, packages, err>>
    /\ UNCHANGED <<inp, bytes, src, lock, calls>>

\* spk.rs 96-97
ReadSTRS ==
    /\ pc = "strs"
    /\ \E r \in {STRSRead(bytes, Cur)} :
       IF ~r.ok THEN Fail("Parse")
       ELSE /\ strs' = [pos |-> pos, val |-> r]
            /\ files' = <<>>
            /\ pos' = LE64(r.end)
            /\ pc' = "file"
            /\ hist' = [hist EXCEPT ![Len(hist)].strsAt = Cur]
            /\ UNCHANGED <<count, iter, spk0, sidx, packages, err>>
    /\ UNCHANGED <<inp, bytes, src, lock, calls>>

\* spk.rs 106-114
NewFileInfo(fi64) ==
    [name |-> NullStringToString(fi64.filename),
     size |-> fi64.file_size,
     offset |-> fi64.data_offset,
     data_size |-> fi64.data_size,
     mode |-> fi64.mode,
     hmac |-> fi64.data_hmac,
     md5 |-> fi64.data_md5]

\* mutant: pointers are taken from the String Table's tag
StrsOffsetAtTag(st) == st.pos

\* spk.rs 100: strs.pos + 8
StrsOffset(st) == AddU64(st.pos, LE64(8))

\* mutant: the loop converts whatever it decoded, the Terminator too
ReadFileInfoNoBranch ==
    /\ pc = "file"
    /\ \E base \in {StrsOffset(strs)} :
       \E r \in {FileInfoRead(bytes, src, Cur, base)} :
       \E o \in Outcomes(PtrOverflows(bytes, Cur, base)) :
             IF o = "panic" THEN Panic("overflow")
             ELSE IF ~r.ok THEN Fail("Parse")
             ELSE \E conv \in {TryFromFileInfo(r)} :
                  IF ~conv.ok THEN Panic("unwrap")
                  ELSE /\ files' = Append(files, NewFileInfo(conv.val))
                       /\ pos' = LE64(r.end)
                       /\ pc' = "file"
                       /\ hist' = [hist EXCEPT ![Len(hist)].recs =
                                      Append(@, [at |-> Cur, end |-> r.end, kind |-> r.kind])]
                       /\ UNCHANGED <<count, iter, spk0, sidx, strs, packages, err>>
    /\ UNCHANGED <<inp, bytes, src, lock, calls>>

\* spk.rs 98-115, one iteration of the file-entry loop
ReadFileInfo ==
    /\ pc = "file"
    /\ \E base \in {StrsOffset(strs)} :
       \E r \in {FileInfoRead(bytes, src, Cur, base)} :
       \E o \in Outcomes(PtrOverflows(bytes, Cur, base)) :
             IF o = "panic" THEN Panic("overflow")
             ELSE IF ~r.ok THEN Fail("Parse")
             ELSE IF r.kind = "FEND"
             THEN /\ pos' = LE64(r.end)
                  /\ pc' = "sdat"
                  /\ hist' = [hist EXCEPT ![Len(hist)].recs =
                                 Append(@, [at |-> Cur, end |-> r.end, kind |-> r.kind])]
                  /\ UNCHANGED <<count, iter, spk0, sidx, strs, files, packages, err>>
             ELSE \E conv \in {TryFromFileInfo(r)} :
                  IF ~conv.ok THEN Panic("unwrap")
                  ELSE /\ files' = Append(files, NewFileInfo(conv.val))
                       /\ pos' = LE64(r.end)
                       /\ pc' = "file"
                       /\ hist' = [hist EXCEPT ![Len(hist)].recs =
                                      Append(@, [at |-> Cur, end |-> r.end, kind |-> r.kind])]
                       /\ UNCHANGED <<count, iter, spk0, sidx, strs, packages, err>>
    /\ UNCHANGED <<inp, bytes, src, lock, calls>>

\* mutant: the base is the header's position plus 8 whatever its form
FinalizeLegacyOnly(fs, sdat) ==
    [i \in 1..Len(fs) |-> [fs[i] EXCEPT !.offset = AddU64(@, AddU64(sdat.pos, LE64(8)))]]

\* spk.rs 118-120: file.offset += sdat.pos + sdat.header_size()
Finalize(fs, sdat) ==
    LET base == AddU64(sdat.pos, header_size(sdat.val.byte_len)) IN
    [i \in 1..Len(fs) |-> [fs[i] EXCEPT !.offset = AddU64(@, base)]]

FinalizeOverflows(fs, sdat) ==
    LET base == AddU64(sdat.pos, header_size(sdat.val.byte_len)) IN
    \E i \in 1..Len(fs) : Overflows(fs[i].offset, base)

\* spk.rs 122-129
NewPackage(sx, name, fs) ==
    [name |-> name,
     version |-> <<sx.major_version, sx.minor_version, sx.patch_version>>,
     type_ |-> sx.package_type,
     files |-> fs]

\* spk.rs 117-130
ReadSDAT ==
    /\ pc = "sdat"
    /\ \E r \in {SDATRead(bytes, Cur)} :
       \E sdat \in {[pos |-> pos, val |-> r]} :
       \E name \in {PackageName(sidx.package_name)} :
           IF ~r.ok THEN Fail("Parse")
           ELSE \E o \in Outcomes(FinalizeOverflows(files, sdat)) :
                \E final \in {Finalize(files, sdat)} :
                  IF o = "panic" THEN Panic("overflow")
                  ELSE IF ~name.ok THEN Fail(name.err)
                  ELSE /\ packages' = Append(packages, NewPackage(sidx, name.val, final))
                       /\ files' = final
                       /\ pos' = LE64(r.end)
                       /\ pc' = "seek"
                       /\ hist' = [hist EXCEPT ![Len(hist)].sdatAt = Cur,
                                                ![Len(hist)].sdat = r.byte_len,
                                                ![Len(hist)].sdatEnd = r.end]
                       /\ UNCHANGED <<count, iter, spk0, sidx, strs, err>>
    /\ UNCHANGED <<inp, bytes, src, lock, calls>>

\* mutant: the next envelope is looked for where decoding stopped
NextOffsetConsumed(env) == pos

\* spk.rs 133: spk0.pos + spk0.offset_to_next()
NextOffset(env) == AddU64(env.pos, offset_to_next(env.val))

NextOffsetOverflows(env) ==
    \/ Overflows(header_size(env.val.byte_len), byte_len(env.val.byte_len))
    \/ Overflows(env.pos, offset_to_next(env.val))

\* spk.rs 132-135: the seek to the next envelope and the loop's next turn
Resync ==
    /\ pc = "seek"
    /\ \E o \in Outcomes(NextOffsetOverflows(spk0)) :
       \E offset \in {NextOffset(spk0)} :
         IF o = "panic" THEN Panic("overflow")
         ELSE IF ~SeekOk(src, offset) THEN Fail("IOError")
         ELSE /\ pos' = offset
              /\ iter' = iter + 1
              /\ pc' = LoopTop(iter + 1, count)
              /\ hist' = [hist EXCEPT ![Len(hist)].target = offset]
              /\ UNCHANGED <<count, spk0, sidx, strs, files, packages, err>>
    /\ UNCHANGED <<inp, bytes, src, lock, calls>>

(***************************************************************************)
(* SPKFile::read (spk.rs 172-178), one action per step of a call; the       *)
(* reader is the Mutex of spk.rs 51, its guard dropped when read returns.   *)
(***************************************************************************)
Threads == 1..NThreads

Idle == [pc |-> "idle"]

\* the FileInfo values a caller can pass: those of the archive's index
AllFiles == UNION {{packages[k].files[i] : i \in 1..Len(packages[k].files)} :
                      k \in 1..Len(packages)}

\* spk.rs 173: vec![0; data_size as usize]; a length above isize::MAX
\* panics, one too large for the machine aborts
AllocOutcomes(n) ==
    IF n[8] >= 128 THEN {"panic"}
    ELSE IF ~Addressable(n) THEN {"panic", "ok"}
    ELSE {"ok"}

ReadCall(t) ==
    /\ pc = "done"
    /\ calls[t].pc \in {"idle", "returned"}
    /\ \E f \in AllFiles : \E o \in AllocOutcomes(f.data_size) :
         calls' = [calls EXCEPT ![t] =
                      IF o = "panic" THEN [pc |-> "panicked", file |-> f]
                      ELSE [pc |-> "lock", file |-> f]]
    /\ UNCHANGED <<inp, bytes, src, pos, lock, parseVars>>

\* mutant: the reader is taken without waiting for the mutex
ReadLockNoMutex(t) ==
    /\ calls[t].pc = "lock"
    /\ lock' = t
    /\ calls' = [calls EXCEPT ![t].pc = "seek"]
    /\ UNCHANGED <<inp, bytes, src, pos, parseVars>>

\* spk.rs 174
ReadLock(t) ==
    /\ calls[t].pc = "lock"
    /\ lock = 0
    /\ lock' = t
    /\ calls' = [calls EXCEPT ![t].pc = "seek"]
    /\ UNCHANGED <<inp, bytes, src, pos, parseVars>>

\* mutant: a failed seek returns with the guard still held
ReadSeekKeepsLock(t) ==
    /\ calls[t].pc = "seek"
    /\ IF SeekOk(src, calls[t].file.offset)
       THEN /\ pos' = calls[t].file.offset
            /\ calls' = [calls EXCEPT ![t].pc = "read"]
       ELSE /\ calls' = [calls EXCEPT ![t] =
                            [pc |-> "returned", file |-> @.file, ok |-> FALSE,
                             val |-> "IOError"]]
            /\ UNCHANGED pos
    /\ UNCHANGED <<inp, bytes, src, lock, parseVars>>

\* mutant: the read starts where the cursor was left
ReadSeekSkipped(t) ==
    /\ calls[t].pc = "seek"
    /\ calls' = [calls EXCEPT ![t].pc = "read"]
    /\ UNCHANGED <<inp, bytes, src, pos, lock, parseVars>>

\* spk.rs 175
ReadSeek(t) ==
    /\ calls[t].pc = "seek"
    /\ IF SeekOk(src, calls[t].file.offset)
       THEN /\ pos' = calls[t].file.offset
            /\ calls' = [calls EXCEPT ![t].pc = "read"]
            /\ UNCHANGED lock
       ELSE /\ calls' = [calls EXCEPT ![t] =
                            [pc |-> "returned", file |-> @.file, ok |-> FALSE,
                             val |-> "IOError"]]
            /\ lock' = 0
            /\ UNCHANGED pos
    /\ UNCHANGED <<inp, bytes, src, parseVars>>

\* where a read_exact that met the end of the source may leave the cursor
AfterShortRead == {pos} \cup (IF Cur < Len(bytes) THEN {LE64(Len(bytes))} ELSE {})

\* mutant: read in place of read_exact, the rest of the buffer left zero
ReadSome(t) ==
    /\ calls[t].pc = "read"
    /\ LET n == calls[t].file.data_size
           got == IF Cur < Len(bytes) THEN SubSeq(bytes, Cur + 1, Len(bytes)) ELSE <<>>
       IN  /\ Addressable(n)
           /\ calls' = [calls EXCEPT ![t] =
                           [pc |-> "returned", file |-> @.file, ok |-> TRUE,
                            val |-> SubSeq(got \o Zeros(ToInt(n)), 1, ToInt(n))]]
           /\ pos' = LE64(Cur + Len(SubSeq(got, 1, IF Len(got) < ToInt(n) THEN Len(got) ELSE ToInt(n))))
    /\ lock' = 0
    /\ UNCHANGED <<inp, bytes, src, parseVars>>

\* spk.rs 176-178: read_exact at the cursor, then the guard is dropped
ReadExact(t) ==
    /\ calls[t].pc = "read"
    /\ LET n == calls[t].file.data_size IN
       IF n = Zeros(8)
       THEN /\ calls' = [calls EXCEPT ![t] =
                            [pc |-> "returned", file |-> @.file, ok |-> TRUE,
                             val |-> <<>>]]
            /\ UNCHANGED pos
       ELSE IF Addressable(n) /\ Avail(bytes, Cur, ToInt(n))
       THEN /\ calls' = [calls EXCEPT ![t] =
                            [pc |-> "returned", file |-> @.file, ok |-> TRUE,
                             val |-> Take(bytes, Cur, ToInt(n))]]
            /\ pos' = LE64(Cur + ToInt(n))
       ELSE /\ calls' = [calls EXCEPT ![t] =
                            [pc |-> "returned", file |-> @.file, ok |-> FALSE,
                             val |-> "IOError"]]
            /\ pos' \in AfterShortRead
    /\ lock' = 0
    /\ UNCHANGED <<inp, bytes, src, parseVars>>

(***************************************************************************)
(* The byte sources of the model.                                           *)
(***************************************************************************)
Forms == {"Old", "New"}

Entry(w, sel) ==
    [wide |-> w, ptr |-> IF sel = 1 THEN 0 ELSE 2,
     doff |-> IF sel = 1 THEN 0 ELSE 3, dsize |-> 3, hi |-> 0]

EntrySet == {Entry(w, sel) : w \in BOOLEAN, sel \in {1, 2}}

SeqsUpTo(S, n) == UNION {[1..m -> S] : m \in 0..n}

Pkg(env, aux, sdat, pad, ents) ==
    [env |-> env, aux |-> aux, sdat |-> sdat, pad |-> pad, ents |-> ents,
     span |-> "exact", fend |-> 0]

NoDamage == [how |-> "none", at |-> 0, keep |-> 0, val |-> 0, len |-> 0]

Container(cnt, ps) == [count |-> cnt, pkgs |-> ps, dmg |-> NoDamage, src |-> "cursor"]

\* one well-formed package of every shape
Singles ==
    {Container(1, <<Pkg(e, a, s, pd, es)>>) :
        e \in Forms, a \in BOOLEAN, s \in Forms, pd \in {0, 16},
        es \in SeqsUpTo(EntrySet, MaxEntries)}

PairPkgs ==
    {Pkg(f, f = "New", f, pd, <<e>>) :
        f \in Forms, pd \in {0, 16}, e \in {Entry(FALSE, 1), Entry(TRUE, 2)}}

\* several well-formed packages
Multis == UNION {{Container(n, ps) : ps \in [1..n -> PairPkgs]} : n \in 2..MaxPkgs}

Base ==
    Container(2, <<Pkg("New", TRUE, "New", 16, <<Entry(FALSE, 1), Entry(TRUE, 2)>>),
                   Pkg("Old", FALSE, "New", 0, <<Entry(TRUE, 1)>>)>>)

Small == Container(1, <<Pkg("Old", FALSE, "Old", 0, <<Entry(FALSE, 1)>>)>>)

\* a declared package count that differs from the packages present
Counts == {[Base EXCEPT !.count = c] : c \in 0..(MaxPkgs + 1)}

Damages(c) ==
    {d \in [how : {"tag", "cut"}, at : 1..Len(Chunks(c)), keep : {0, 6, 8},
             val : {0}, len : {0}] :
        /\ d.how = "tag" => d.keep = 0
        /\ d.keep <= Len(Chunks(c)[d.at])}

\* a wrong tag or a truncation at every chunk
Broken == UNION {{[c EXCEPT !.dmg = d] : d \in Damages(c)} : c \in {Base, Small}}

\* an envelope that declares less than its region, a Terminator with a
\* nonzero length
BadSpans ==
    {[c EXCEPT !.pkgs[1].span = sp] : c \in {Base, Small}, sp \in {"zero", "short"}}

BadFend == UNION {{[c EXCEPT !.pkgs[k].fend = 1] : k \in 1..Len(c.pkgs)} : c \in {Base, Small}}

\* the last file's data runs past the end of the source
Short == Container(1, <<Pkg("Old", FALSE, "New", 0, <<Entry(FALSE, 1), Entry(TRUE, 2)>>)>>)

\* a data offset above i64::MAX
Far == Container(1, <<Pkg("Old", FALSE, "Old", 0,
                          <<Entry(FALSE, 1), [Entry(TRUE, 2) EXCEPT !.hi = 128]>>)>>)

\* an empty file whose data offset is past the end of the source
Empty == Container(1, <<Pkg("Old", FALSE, "Old", 0,
                            <<[Entry(TRUE, 2) EXCEPT !.dsize = 0, !.doff = 9]>>)>>)

OnFile == {[c EXCEPT !.src = "file"] : c \in {Base, Small, Far}}

Inputs ==
    Singles \cup Multis \cup Counts \cup Broken \cup BadSpans \cup BadFend
        \cup OnFile \cup {Far, Short, Empty}

\* one narrow, one wide entry, each in a package of its own
Narrow1 == Container(1, <<Pkg("Old", FALSE, "Old", 0, <<Entry(FALSE, 2)>>)>>)

Wide1 == Container(1, <<Pkg("New", FALSE, "New", 0, <<Entry(TRUE, 2)>>)>>)

ReadInputs == {Base, Short, Empty, Far, [Far EXCEPT !.src = "file"], Narrow1, Wide1}

\* the chunks of c that carry the tag
Idx(c, tag) == {i \in 1..Len(Chunks(c)) : Take(Chunks(c)[i], 0, 4) = tag}

\* the length of the header of chunk i: tag and length field
HdrOf(c, i) == IF Take(Chunks(c)[i], 4, 4) = Sentinel THEN 16 ELSE 8

Poke(i, off, v, n) == [how |-> "poke", at |-> i, keep |-> off, val |-> v, len |-> n]

\* fields at the ends of their ranges
Pokes(c) ==
    \* a wide entry's data offset 2^64 - 1
    {Poke(i, 24, 255, 8) : i \in Idx(c, TagFI64)}
    \* a narrow entry's file size, data offset and data size 2^32 - 1
    \cup {Poke(i, 12, 255, 12) : i \in Idx(c, TagFINF)}
    \* an extended envelope length 2^64 - 1
    \cup {Poke(i, 8, 255, 8) : i \in {j \in Idx(c, TagSPK0) : HdrOf(c, j) = 16}}
    \* a file name that is not UTF-8
    \cup {Poke(i, 8, 255, 1) : i \in Idx(c, TagSTRS)}
    \* a package name that fills its 29 bytes
    \cup {Poke(i, HdrOf(c, i) + 4, 65, 25) : i \in Idx(c, TagSIDX)}
    \* a package name that is not UTF-8
    \cup {Poke(i, HdrOf(c, i) + 1, 255, 1) : i \in Idx(c, TagSIDX)}
    \* an identifier field that is not zero
    \cup {Poke(i, HdrOf(c, i) + 29, 83, 3) : i \in Idx(c, TagSIDX)}

EdgeInputs ==
    LET plain == {[c EXCEPT !.src = s] : c \in {Narrow1, Wide1, Base}, s \in {"cursor", "file"}}
    IN  plain \cup UNION {{[c EXCEPT !.dmg = d] : d \in Pokes(c)} : c \in plain}

InitWith(S) ==
    /\ inp \in S
    /\ bytes = Stream(inp)
    /\ src = inp.src
    /\ pos = LE64(0)
    /\ pc = "spks"
    /\ count = Zeros(4)
    /\ iter = 0
    /\ spk0 = NoPos
    /\ sidx = Failed
    /\ strs = NoPos
    /\ files = <<>>
    /\ packages = <<>>
    /\ err = ""
    /\ hist = <<>>
    /\ lock = 0
    /\ calls = [t \in Threads |-> Idle]

Init == InitWith(Inputs)

InitRead == InitWith(ReadInputs)

InitEdge == InitWith(EdgeInputs)

\* sources of every kind: well-formed, damaged, with a wrong count or span,
\* with fields at the ends of their ranges
LiveInputs ==
    EdgeInputs \cup Counts \cup Broken \cup BadSpans \cup BadFend \cup {Far, Short, Empty}

InitLive == InitWith(LiveInputs)

Parse ==
    \/ ReadSPKS
    \/ ReadSPK0
    \/ ReadSIDX
    \/ ProbeSZ64
    \/ ReadSTRS
    \/ ReadFileInfo
    \/ ReadSDAT
    \/ Resync

Next == Parse

NextRead ==
    \/ Parse
    \/ \E t \in Threads : ReadCall(t)
    \/ \E t \in Threads : ReadLock(t)
    \/ \E t \in Threads : ReadSeek(t)
    \/ \E t \in Threads : ReadExact(t)

\* decoding of every byte source of the model
Spec == Init /\ [][Next]_vars

\* decoding followed by concurrent reads of the archive
SpecRead == InitRead /\ [][NextRead]_vars

\* decoding of sources whose fields are at the ends of their ranges
SpecEdge == InitEdge /\ [][Next]_vars

\* concurrent reads under a fair scheduler: a call that holds the reader
\* goes on, and a call that waits for the mutex, free again and again,
\* gets it
SpecReadFair ==
    /\ InitRead
    /\ [][NextRead]_vars
    /\ \A t \in Threads :
          SF_vars(ReadLock(t)) /\ WF_vars(ReadSeek(t)) /\ WF_vars(ReadExact(t))

\* decoding of every byte source, parse running on as long as it has a step
SpecLive == InitLive /\ [][Next]_vars /\ WF_vars(Next)

(***************************************************************************)
(* Ground truth.  What the layout says, computed from the record widths of  *)
(* the format and never from the decoder: where each chunk of a well-formed *)
(* source starts and what its packages hold; and what the bytes at a        *)
(* position say (the wire), read without the decoder's operators.           *)
(***************************************************************************)
WellFormed(c) ==
    /\ c.dmg.how = "none"
    /\ c.count = Len(c.pkgs)
    /\ \A k \in 1..Len(c.pkgs) : c.pkgs[k].span = "exact" /\ c.pkgs[k].fend = 0

HdrLen(form) == IF form = "New" THEN 16 ELSE 8

EntryLen(e) == IF e.wide THEN 88 ELSE 68

RECURSIVE EntriesLen(_)
EntriesLen(es) == IF es = <<>> THEN 0 ELSE EntryLen(Head(es)) + EntriesLen(Tail(es))

\* from the package's envelope tag to its String Table tag
ToStrs(p) == HdrLen(p.env) + (HdrLen(p.env) + 48) + (IF p.aux THEN 16 ELSE 0)

\* from the package's envelope tag to its Data-Segment Header tag
ToSdat(p) == ToStrs(p) + 12 + EntriesLen(p.ents) + 8

\* the whole package: through the data and the padding
PkgLen(p) == ToSdat(p) + HdrLen(p.sdat) + 5 + p.pad

RECURSIVE PkgStart(_, _)
PkgStart(c, k) == IF k = 1 THEN 12 ELSE PkgStart(c, k - 1) + PkgLen(c.pkgs[k - 1])

StrsAt(c, k) == PkgStart(c, k) + ToStrs(c.pkgs[k])

SdatAt(c, k) == PkgStart(c, k) + ToSdat(c.pkgs[k])

ExpFile(c, k, e) ==
    [name |-> <<StrsData(k)[e.ptr + 1]>>,
     size |-> LE64(e.dsize),
     offset |-> LE32(SdatAt(c, k) + HdrLen(c.pkgs[k].sdat) + e.doff)
                   \o <<0, 0, 0, IF e.wide THEN e.hi ELSE 0>>,
     data_size |-> LE64(e.dsize),
     mode |-> Mode,
     hmac |-> Hmac(e),
     md5 |-> Md5(e)]

ExpPackage(c, k) ==
    [name |-> <<80, 107, 103, 48 + k>>,
     version |-> <<k, 2, 3>>,
     type_ |-> TypeOf(k),
     files |-> [i \in 1..Len(c.pkgs[k].ents) |-> ExpFile(c, k, c.pkgs[k].ents[i])]]

\* the length form of the chunk header whose tag is at `at`
WireForm(at) ==
    IF ~Avail(bytes, at, 8) THEN "Truncated"
    ELSE IF Take(bytes, at + 4, 4) # Sentinel THEN "Legacy"
    ELSE IF Avail(bytes, at, 16) THEN "Extended"
    ELSE "Truncated"

WireHeader(at) == IF WireForm(at) = "Extended" THEN 16 ELSE 8

WireLength(at) ==
    IF WireForm(at) = "Extended" THEN Take(bytes, at + 8, 8)
    ELSE Widen(Take(bytes, at + 4, 4))

\* the data offset stored in the file entry at `at`
WireDataOffset(at) ==
    IF Take(bytes, at, 4) = TagFI64 THEN Take(bytes, at + 24, 8)
    ELSE Widen(Take(bytes, at + 16, 4))

\* the name pointer stored in the file entry at `at`
WirePointer(at) ==
    IF Take(bytes, at, 4) = TagFI64 THEN Take(bytes, at + 8, 8)
    ELSE Widen(Take(bytes, at + 8, 4))

\* parse returned Ok(SPKFile)
Returned == pc = "done"

(***************************************************************************)
(* C1.  After each package the cursor is set to envelope start +            *)
(* header_size + byte_len, whatever the package's chunks consumed, and the  *)
(* next envelope is read there; so in a well-formed source every package,   *)
(* also one that follows 16 bytes of padding, is decoded from its own       *)
(* position with its own contents.                                          *)
(***************************************************************************)
ResyncBySpan ==
    /\ \A k \in 1..Len(hist) :
         hist[k].target # <<>> =>
            hist[k].target =
               AddU64(LE64(hist[k].spk0At),
                      AddU64(LE64(WireHeader(hist[k].spk0At)), WireLength(hist[k].spk0At)))
    /\ \A k \in 2..Len(hist) : LE64(hist[k].spk0At) = hist[k - 1].target
    /\ (pc \in {"spk0", "done"} /\ hist # <<>>) => pos = hist[Len(hist)].target
    /\ WellFormed(inp) =>
         \A k \in 1..Len(packages) :
            /\ hist[k].spk0At = PkgStart(inp, k)
            /\ packages[k] = ExpPackage(inp, k)

PaddedThenDecoded ==
    /\ Returned
    /\ WellFormed(inp)
    /\ Len(inp.pkgs) = 2
    /\ inp.pkgs[1].pad = 16
    /\ Len(packages) = 2
    /\ hist[1].target = LE64(hist[1].sdatEnd + 5 + 16)
    /\ hist[2].spk0At = PkgStart(inp, 2)
    /\ packages[2] = ExpPackage(inp, 2)

(***************************************************************************)
(* C2.  The claim as stated: a re-synchronizing seek is only ever made to   *)
(* a target beyond the cursor reached after the Data-Segment Header; a      *)
(* target at or before it makes parse fail instead.                         *)
(***************************************************************************)
SeekOnlyForward ==
    \A k \in 1..Len(hist) :
       hist[k].target # <<>> => LtU64(LE64(hist[k].sdatEnd), hist[k].target)

(***************************************************************************)
(* C3.  Every file entry of every decoded package k has final offset        *)
(* P_k + h_k + d: P_k the position of the package's own Data-Segment Header *)
(* tag, h_k 8 for the legacy and 16 for the extended length form, d the     *)
(* entry's stored data offset.                                              *)
(***************************************************************************)
OffsetsFinal ==
    \A k \in 1..Len(packages) :
       /\ WellFormed(inp) => hist[k].sdatAt = SdatAt(inp, k)
       /\ \A i \in 1..Len(packages[k].files) :
            LET P == hist[k].sdatAt
                d == WireDataOffset(hist[k].recs[i].at)
            IN  /\ WireForm(P) = "Legacy" =>
                      packages[k].files[i].offset = AddU64(LE64(P + 8), d)
                /\ WireForm(P) = "Extended" =>
                      packages[k].files[i].offset = AddU64(LE64(P + 16), d)

BothFormsFinal ==
    /\ Returned
    /\ Len(packages) = 2
    /\ WireForm(hist[1].sdatAt) = "Extended"
    /\ WireForm(hist[2].sdatAt) = "Legacy"
    /\ Len(packages[1].files) = 1
    /\ Len(packages[2].files) = 1
    /\ WireDataOffset(hist[1].recs[1].at) = LE64(3)
    /\ packages[1].files[1].offset = LE64(hist[1].sdatAt + 16 + 3)
    /\ packages[2].files[1].offset = LE64(hist[2].sdatAt + 8)

(***************************************************************************)
(* C4.  The claim as stated: header_size + byte_len of an envelope is the   *)
(* distance from its tag to the next sibling, and a length is decoded as    *)
(* Extended exactly when the 4 bytes after the tag are the sentinel.        *)
(***************************************************************************)
LengthCodec ==
    \A k \in 1..Len(hist) :
       /\ (hist[k].env.form = "New") <=> (Take(bytes, hist[k].spk0At + 4, 4) = Sentinel)
       /\ hist[k].sdat.ok =>
            ((hist[k].sdat.form = "New") <=> (Take(bytes, hist[k].sdatAt + 4, 4) = Sentinel))
       /\ WellFormed(inp) =>
            AddU64(header_size(hist[k].env), byte_len(hist[k].env))
               = LE64(PkgLen(inp.pkgs[k]))

(***************************************************************************)
(* C5.  Resolving names is cursor-neutral: every narrow record decoded      *)
(* leaves the cursor 68 bytes, every wide record 88 bytes, after the        *)
(* record's start, so that the records of a package follow one another      *)
(* from the end of the String Table, whatever their names' addresses.       *)
(***************************************************************************)
WireWidth(at) ==
    IF Take(bytes, at, 4) = TagFINF THEN 68
    ELSE IF Take(bytes, at, 4) = TagFI64 THEN 88
    ELSE 8

WireStrsEnd(at) == at + 8 + ToInt(Widen(Take(bytes, at + 4, 4)))

CursorNeutral ==
    \A k \in 1..Len(hist) :
       LET h == hist[k] IN
       /\ \A i \in 1..Len(h.recs) :
            /\ h.recs[i].end = h.recs[i].at + WireWidth(h.recs[i].at)
            /\ h.recs[i].at = IF i = 1 THEN WireStrsEnd(h.strsAt) ELSE h.recs[i - 1].end
            /\ WellFormed(inp) =>
                 h.recs[i].at = StrsAt(inp, k) + 12
                                   + EntriesLen(SubSeq(inp.pkgs[k].ents, 1, i - 1))
       /\ (k = Len(hist) /\ pc \in {"file", "sdat"}) =>
            pos = LE64(IF h.recs = <<>> THEN WireStrsEnd(h.strsAt)
                       ELSE h.recs[Len(h.recs)].end)

NarrowThenWide ==
    /\ pc = "sdat"
    /\ Len(hist) = 1
    /\ Len(hist[1].recs) = 3
    /\ hist[1].recs[1].kind = "FINF"
    /\ hist[1].recs[2].kind = "FI64"
    /\ files[1].name = <<97>>
    /\ files[2].name = <<98>>
    /\ hist[1].recs[3].at = hist[1].recs[1].at + 68 + 88

(***************************************************************************)
(* C6.  Every file name of package k is the NUL-terminated byte sequence at *)
(* (position of package k's own String Table tag) + 8 + (the entry's        *)
(* stored pointer).                                                         *)
(***************************************************************************)
NamesFromOwnTable ==
    \A k \in 1..Len(packages) :
       /\ WellFormed(inp) => hist[k].strsAt = StrsAt(inp, k)
       /\ \A i \in 1..Len(packages[k].files) :
            LET name == packages[k].files[i].name
                a == ToInt(AddU64(LE64(hist[k].strsAt + 8), WirePointer(hist[k].recs[i].at)))
            IN  /\ Avail(bytes, a, Len(name) + 1)
                /\ name = Take(bytes, a, Len(name))
                /\ bytes[a + Len(name) + 1] = 0
                /\ \A j \in 1..Len(name) : name[j] # 0
                /\ WellFormed(inp) =>
                     name = <<StrsData(k)[inp.pkgs[k].ents[i].ptr + 1]>>

EachPackageItsTable ==
    /\ Returned
    /\ Len(packages) = 2
    /\ Len(packages[1].files) = 1
    /\ Len(packages[2].files) = 1
    /\ WirePointer(hist[1].recs[1].at) = WirePointer(hist[2].recs[1].at)
    /\ packages[1].files[1].name = <<StrsData(1)[1]>>
    /\ packages[2].files[1].name = <<StrsData(2)[1]>>

(***************************************************************************)
(* C7.  A Terminator whose length field is not zero is never accepted as    *)
(* the end of the file-entry list: the step that meets it makes parse       *)
(* return a structural decode failure, and no package is added.             *)
(***************************************************************************)
BadTerminatorAt(at) ==
    /\ Avail(bytes, at, 8)
    /\ Take(bytes, at, 4) = TagFEND
    /\ Take(bytes, at + 4, 4) # Zeros(4)

TerminatorEnforced ==
    /\ [](\A k \in 1..Len(hist) : \A i \in 1..Len(hist[k].recs) :
             ~BadTerminatorAt(hist[k].recs[i].at))
    /\ [][(pc = "file" /\ BadTerminatorAt(Cur)) =>
             (pc' = "failed" /\ err' = "Parse" /\ packages' = packages)]_vars

TerminatorRefused ==
    /\ pc = "failed"
    /\ err = "Parse"
    /\ BadTerminatorAt(Cur)
    /\ hist # <<>>
    /\ hist[Len(hist)].strsAt >= 0
    /\ hist[Len(hist)].sdatAt < 0
    /\ Len(packages) = Len(hist) - 1

(***************************************************************************)
(* C8.  Concurrent reads are serialized: at most one call is between        *)
(* taking the reader and finishing its read, the cursor a call reads at is  *)
(* the one its own seek set, and the bytes a call returns are those at its  *)
(* own entry's offset.                                                      *)
(***************************************************************************)
InReader == {t \in Threads : calls[t].pc \in {"seek", "read"}}

ReadsSerialized ==
    /\ Cardinality(InReader) <= 1
    /\ \A t \in Threads :
         /\ t \in InReader => lock = t
         /\ calls[t].pc = "read" => pos = calls[t].file.offset
         /\ (calls[t].pc = "returned" /\ calls[t].ok) =>
              calls[t].val = Take(bytes, ToInt(calls[t].file.offset), Len(calls[t].val))

ReaderContended ==
    \E t \in Threads : \E u \in Threads :
       /\ calls[t].pc = "read"
       /\ calls[u].pc = "lock"
       /\ calls[u].file.offset # calls[t].file.offset

(***************************************************************************)
(* C9.  read returns exactly the data_size bytes of the source at           *)
(* file.offset when the source holds them, and a failure, never a shorter   *)
(* or padded buffer, when fewer than data_size bytes follow the offset.     *)
(***************************************************************************)
\* the source holds n bytes from offset o
Holds(o, n) == Addressable(o) /\ Addressable(n) /\ ToInt(o) + ToInt(n) <= Len(bytes)

ReadExactly ==
    \A t \in Threads :
       calls[t].pc = "returned" =>
          LET f == calls[t].file IN
          /\ (Holds(f.offset, f.data_size) /\ SeekOk(src, f.offset)) =>
               /\ calls[t].ok
               /\ calls[t].val = Take(bytes, ToInt(f.offset), ToInt(f.data_size))
          /\ calls[t].ok =>
               /\ LE64(Len(calls[t].val)) = f.data_size
               /\ f.data_size # Zeros(8) =>
                    /\ Holds(f.offset, f.data_size)
                    /\ calls[t].val = Take(bytes, ToInt(f.offset), ToInt(f.data_size))
          /\ (f.data_size # Zeros(8) /\ ~Holds(f.offset, f.data_size)) => ~calls[t].ok

ShortAndFull ==
    \E t \in Threads : \E u \in Threads :
       /\ calls[t].pc = "returned"
       /\ calls[u].pc = "returned"
       /\ ~calls[t].ok
       /\ Addressable(calls[t].file.offset)
       /\ ToInt(calls[t].file.offset) < Len(bytes)
       /\ calls[u].ok
       /\ Len(calls[u].val) = 3

(***************************************************************************)
(* C10.  The probe for the Auxiliary Record never makes parse fail: the     *)
(* String Table is read next, 16 bytes after Package Metadata when an       *)
(* Auxiliary Record is there and immediately after Package Metadata when    *)
(* what is there has another tag or is cut short.                           *)
(***************************************************************************)
\* the end of the Package Metadata whose tag is at `at`
WireSidxEnd(at) == at + WireHeader(at) + 48

AuxAt(at) == Avail(bytes, at, 16) /\ Take(bytes, at, 4) = TagSZ64

ProbeTolerant ==
    \A k \in 1..Len(hist) :
       LET h == hist[k]
           after == WireSidxEnd(h.sidxAt) + (IF AuxAt(WireSidxEnd(h.sidxAt)) THEN 16 ELSE 0)
       IN  h.sidxAt >= 0 =>
              /\ (k = Len(hist) /\ pc = "strs") => pos = LE64(after) /\ err = ""
              /\ (k = Len(hist) /\ pc = "failed") => h.probeAt >= 0
              /\ (k < Len(hist) \/ pc \notin {"sz64", "failed"}) => h.probeAt >= 0
              /\ h.strsAt >= 0 => h.strsAt = after

AbsentThenTable ==
    /\ pc = "file"
    /\ hist[Len(hist)].strsAt = WireSidxEnd(hist[Len(hist)].sidxAt)
    /\ ~AuxAt(hist[Len(hist)].strsAt)
    /\ Take(bytes, hist[Len(hist)].strsAt, 4) = TagSTRS

(***************************************************************************)
(* C11.  The claim as stated: when a chunk of a declared package has a      *)
(* wrong tag or is cut short, or a Terminator has a nonzero length, parse   *)
(* returns a failure and no archive.                                        *)
(***************************************************************************)
\* the number of chunks of a package: envelope, metadata, auxiliary record,
\* string table, entries, terminator, data-segment header, data
NChunks(p) == 6 + (IF p.aux THEN 1 ELSE 0) + Len(p.ents)

\* the index, among the chunks of the stream, of the data of package k
RECURSIVE DataChunk(_, _)
DataChunk(c, k) == IF k = 0 THEN 1 ELSE DataChunk(c, k - 1) + NChunks(c.pkgs[k])

\* the damage is to a chunk that parse has to decode
Malformed(c) ==
    \/ /\ c.dmg.how \in {"tag", "cut"}
       /\ c.dmg.how = "cut" => c.dmg.keep < Len(Chunks(c)[c.dmg.at])
       /\ c.count = Len(c.pkgs)
       /\ c.dmg.at \notin {DataChunk(c, k) : k \in 1..Len(c.pkgs)}
    \/ \E k \in 1..Len(c.pkgs) : k <= c.count /\ c.pkgs[k].fend # 0

MalformedRefused == Malformed(inp) => ~Returned

(***************************************************************************)
(* C12.  The claim as stated: an archive is returned only when every file   *)
(* name on the wire is valid UTF-8, and each name returned is the wire's    *)
(* bytes, never a replaced or altered text.                                 *)
(***************************************************************************)
\* the bytes, up to the NUL, that the pointer of entry i of package k
\* resolves to
WireName(k, i) ==
    LET a == ToInt(AddU64(LE64(hist[k].strsAt + 8), WirePointer(hist[k].recs[i].at)))
    IN  Take(bytes, a, NulAt(bytes, a) - a)

NamesEncodingChecked ==
    Returned =>
       \A k \in 1..Len(packages) : \A i \in 1..Len(packages[k].files) :
          /\ Utf8Valid(WireName(k, i))
          /\ packages[k].files[i].name = WireName(k, i)

(***************************************************************************)
(* C13.  For a well-formed container that declares n packages parse does    *)
(* not fail and returns exactly n packages in stream order, each with the   *)
(* name, version and type of its metadata and with the file entries that    *)
(* precede its Terminator, in stream order; and read of a file whose data   *)
(* lies in its package's data segment returns those data bytes.             *)
(***************************************************************************)
\* the data bytes the layout places for entry e of package k
PlacedData(k, e) == SubSeq(DataBytes(k), e.doff + 1, e.doff + e.dsize)

WellFormedIndexed ==
    WellFormed(inp) =>
       /\ pc \notin {"failed", "panicked"}
       /\ Len(packages) <= inp.count
       /\ \A k \in 1..Len(packages) : packages[k] = ExpPackage(inp, k)
       /\ Returned => Len(packages) = inp.count
       /\ \A t \in Threads :
            calls[t].pc = "returned" =>
               \A k \in 1..Len(inp.pkgs) : \A i \in 1..Len(inp.pkgs[k].ents) :
                  LET e == inp.pkgs[k].ents[i] IN
                  (calls[t].file = ExpFile(inp, k, e) /\ e.hi = 0
                      /\ e.doff + e.dsize <= Len(DataBytes(k))) =>
                     calls[t].ok /\ calls[t].val = PlacedData(k, e)

TwoFilesOneRead ==
    /\ Returned
    /\ WellFormed(inp)
    /\ inp.count = 1
    /\ Len(packages) = 1
    /\ packages[1].name = <<80, 107, 103, 49>>
    /\ packages[1].version = <<1, 2, 3>>
    /\ Len(packages[1].files) = 2
    /\ packages[1].files[1].name = <<97>>
    /\ packages[1].files[2].name = <<98>>
    /\ \E t \in Threads :
          /\ calls[t].pc = "returned"
          /\ calls[t].file = packages[1].files[1]
          /\ calls[t].ok
          /\ calls[t].val = <<11, 12, 13>>

(***************************************************************************)
(* C14.  The claim as stated: parse never aborts, and no archive holds an   *)
(* offset, nor is a re-sync seek made to a target, that is the sum modulo   *)
(* 2^64 of operands whose true sum exceeds 2^64 - 1.                        *)
(***************************************************************************)
NoAbortNoWrap ==
    /\ pc # "panicked"
    /\ \A k \in 1..Len(packages) : \A i \in 1..Len(packages[k].files) :
          ~Overflows(AddU64(LE64(hist[k].sdatAt), header_size(hist[k].sdat)),
                     WireDataOffset(hist[k].recs[i].at))
    /\ \A k \in 1..Len(hist) :
          hist[k].target # <<>> =>
             /\ ~Overflows(header_size(hist[k].env), byte_len(hist[k].env))
             /\ ~Overflows(LE64(hist[k].spk0At),
                           AddU64(header_size(hist[k].env), byte_len(hist[k].env)))

(***************************************************************************)
(* C15.  Normalization is lossless: the wide shape made from a wide entry   *)
(* has the entry's own fields, the one made from a narrow entry has the     *)
(* narrow file_size, data_offset and data_size in its low 4 bytes and zero  *)
(* in its high 4 bytes, also at 2^32 - 1, and the same name, mode and       *)
(* digests; and the entry appended to the file list carries those values.   *)
(***************************************************************************)
\* v is the narrow value w extended with zeros
ZeroExtends(v, w) == Len(v) = 8 /\ SubSeq(v, 1, 4) = w /\ SubSeq(v, 5, 8) = Zeros(4)

\* the conversion applied to the entry at the cursor
ConvertsLosslessly ==
    LET r == FileInfoRead(bytes, src, Cur, StrsOffset(strs))
        c == TryFromFileInfo(r)
    IN  (r.ok /\ r.kind # "FEND") =>
           /\ c.ok
           /\ c.val.filename = r.filename
           /\ c.val.byte_len = r.byte_len
           /\ c.val.mode = r.mode
           /\ c.val.data_hmac = r.data_hmac
           /\ c.val.data_md5 = r.data_md5
           /\ r.kind = "FI64" =>
                /\ c.val.file_size = r.file_size
                /\ c.val.data_offset = r.data_offset
                /\ c.val.data_size = r.data_size
           /\ r.kind = "FINF" =>
                /\ ZeroExtends(c.val.file_size, r.file_size)
                /\ ZeroExtends(c.val.data_offset, r.data_offset)
                /\ ZeroExtends(c.val.data_size, r.data_size)

\* entry i of the file list against the bytes of its record at `at`
CarriesWire(f, at, final) ==
    IF Take(bytes, at, 4) = TagFI64
    THEN /\ f.size = Take(bytes, at + 16, 8)
         /\ ~final => f.offset = Take(bytes, at + 24, 8)
         /\ f.data_size = Take(bytes, at + 32, 8)
         /\ f.mode = Take(bytes, at + 40, 2)
         /\ f.hmac = Take(bytes, at + 45, 20)
         /\ f.md5 = Take(bytes, at + 65, 16)
    ELSE /\ ZeroExtends(f.size, Take(bytes, at + 12, 4))
         /\ ~final => ZeroExtends(f.offset, Take(bytes, at + 16, 4))
         /\ ZeroExtends(f.data_size, Take(bytes, at + 20, 4))
         /\ f.mode = Take(bytes, at + 24, 2)
         /\ f.hmac = Take(bytes, at + 29, 20)
         /\ f.md5 = Take(bytes, at + 49, 16)

NormalizeLossless ==
    /\ pc = "file" => ConvertsLosslessly
    /\ \A k \in 1..Len(packages) : \A i \in 1..Len(packages[k].files) :
          CarriesWire(packages[k].files[i], hist[k].recs[i].at, TRUE)
    /\ pc \in {"file", "sdat"} =>
          \A i \in 1..Len(files) :
             CarriesWire(files[i], hist[Len(hist)].recs[i].at, FALSE)

NarrowAtMaximum ==
    /\ Returned
    /\ \E k \in 1..Len(packages) : \E i \in 1..Len(packages[k].files) :
          /\ Take(bytes, hist[k].recs[i].at, 4) = TagFINF
          /\ Take(bytes, hist[k].recs[i].at + 12, 12) = Fill(12, 255)
          /\ packages[k].files[i].size = Fill(4, 255) \o Zeros(4)
          /\ packages[k].files[i].data_size = Fill(4, 255) \o Zeros(4)

(***************************************************************************)
(* C16.  The file-entry loop leaves at the Terminator before the            *)
(* conversion: the unwrap of the conversion never aborts parse, a           *)
(* Terminator is the last record read of its package, and the file list     *)
(* has one entry for every record read before it and none for it.           *)
(***************************************************************************)
TerminatorNeverNormalized ==
    /\ ~(pc = "panicked" /\ err = "unwrap")
    /\ \A k \in 1..Len(hist) :
          LET recs == hist[k].recs
              fs == IF k <= Len(packages) THEN packages[k].files ELSE files
          IN  /\ \A i \in 1..Len(recs) :
                   /\ (recs[i].kind = "FEND") <=> (Take(bytes, recs[i].at, 4) = TagFEND)
                   /\ recs[i].kind = "FEND" => i = Len(recs)
              /\ (k = Len(hist) /\ pc = "file") =>
                   /\ Len(fs) = Len(recs)
                   /\ \A i \in 1..Len(recs) : recs[i].kind # "FEND"
              /\ (k <= Len(packages) \/ (k = Len(hist) /\ pc = "sdat")) =>
                   /\ recs # <<>>
                   /\ recs[Len(recs)].kind = "FEND"
                   /\ Len(fs) = Len(recs) - 1

LeftAtTerminator ==
    /\ pc = "sdat"
    /\ Len(hist) = 2
    /\ Len(files) = 1
    /\ Len(hist[2].recs) = 2
    /\ hist[2].recs[2].kind = "FEND"
    /\ Take(bytes, hist[2].recs[2].at, 8) = TagFEND \o Zeros(4)
    /\ pos = LE64(hist[2].recs[2].at + 8)

(***************************************************************************)
(* C17.  The claim as stated: the name of every package returned is its     *)
(* 29-byte name field with the trailing NUL bytes removed, and parse never  *)
(* fails on a name field whose text is valid UTF-8, whether the field is    *)
(* padded or filled to its last byte and whatever the identifier field      *)
(* holds.                                                                   *)
(***************************************************************************)
\* the 29-byte name field of the Package Metadata of package k
WireNameField(k) == Take(bytes, hist[k].sidxAt + WireHeader(hist[k].sidxAt), 29)

RECURSIVE Trim(_)
Trim(f) == IF f # <<>> /\ f[Len(f)] = 0 THEN Trim(SubSeq(f, 1, Len(f) - 1)) ELSE f

PackageNameTrimmed ==
    /\ \A k \in 1..Len(packages) : packages[k].name = Trim(WireNameField(k))
    /\ (pc = "failed" /\ err \in {"From", "Utf8"}) =>
          ~Utf8Valid(Trim(WireNameField(Len(hist))))

(***************************************************************************)
(* C18.  What a read call returns is a function of its entry's offset and   *)
(* data_size and of the source's bytes alone, whatever calls came before    *)
(* and wherever they or parse left the cursor; and no step of a read        *)
(* changes the index or the source.                                         *)
(***************************************************************************)
\* what read of f returns, from the bytes of the source
ReadResult(f) ==
    IF ~SeekOk(src, f.offset)
    THEN [pc |-> "returned", file |-> f, ok |-> FALSE, val |-> "IOError"]
    ELSE IF f.data_size = Zeros(8)
    THEN [pc |-> "returned", file |-> f, ok |-> TRUE, val |-> <<>>]
    ELSE IF Holds(f.offset, f.data_size)
    THEN [pc |-> "returned", file |-> f, ok |-> TRUE,
          val |-> Take(bytes, ToInt(f.offset), ToInt(f.data_size))]
    ELSE [pc |-> "returned", file |-> f, ok |-> FALSE, val |-> "IOError"]

ReadDependsOnEntry ==
    /\ [](\A t \in Threads :
             calls[t].pc = "returned" => calls[t] = ReadResult(calls[t].file))
    /\ [][pc = "done" => (packages' = packages /\ bytes' = bytes /\ pc' = pc)]_vars

RereadSame ==
    \E t \in Threads : \E u \in Threads :
       /\ t # u
       /\ calls[t].pc = "returned"
       /\ calls[u].pc = "returned"
       /\ calls[t].file = calls[u].file
       /\ calls[t].ok
       /\ calls[u].val = calls[t].val
       /\ Len(calls[t].val) = 3
       /\ pos # calls[t].file.offset

(***************************************************************************)
(* C19.  parse terminates on every byte source: it ends by returning an     *)
(* archive or a failure, or by aborting; every record read in the           *)
(* file-entry loop starts inside the source and moves the cursor forward;   *)
(* and the package loop never runs more often than the declared count,      *)
(* also after a re-sync seek that goes backward.                            *)
(***************************************************************************)
Ended == pc \in {"done", "failed", "panicked"}

ParseTerminates ==
    /\ <>Ended
    /\ [](/\ LeU64(LE64(iter), Widen(count))
          /\ Len(hist) <= iter + 1
          /\ \A k \in 1..Len(hist) : \A i \in 1..Len(hist[k].recs) :
                /\ hist[k].recs[i].at < Len(bytes)
                /\ hist[k].recs[i].end > hist[k].recs[i].at)

BackwardThenEnded ==
    /\ Ended
    /\ inp.count = 2
    /\ iter >= 1
    /\ hist[1].target # <<>>
    /\ LtU64(hist[1].target, LE64(hist[1].sdatEnd))

(***************************************************************************)
(* C20.  The reader lock is held only by a call that is between taking it   *)
(* and returning: the step by which a call returns, with the bytes, after   *)
(* a failed seek or after a short read, frees the lock; and under a fair    *)
(* scheduler every call that waits for the lock gets it and returns.        *)
(***************************************************************************)
LockReleased ==
    /\ [](\A t \in Threads : lock = t => calls[t].pc \in {"seek", "read"})
    /\ [][\A t \in Threads :
             (calls[t].pc \in {"seek", "read"} /\ calls'[t].pc = "returned") => lock' = 0]_vars
    /\ \A t \in Threads : (calls[t].pc = "lock") ~> (calls[t].pc = "returned")

FailedThenTaken ==
    \E t \in Threads : \E u \in Threads :
       /\ calls[t].pc = "returned"
       /\ ~calls[t].ok
       /\ calls[u].pc \in {"seek", "read"}
       /\ lock = u

=============================================================================
